---- MODULE Spec2Model ----
(***************************************************************************)
(* vnl_quaternion<T> (core/vnl/vnl_quaternion.txx): unit quaternions as    *)
(* rotations, with the conversions to and from rotation matrices,          *)
(* axis/angle pairs and Euler angles.                                      *)
(*                                                                         *)
(* The scalar type T is modelled by exact rational arithmetic: a scalar is *)
(* a pair <<n, d>> in lowest terms with d > 0.  Rounding of the floating   *)
(* point formats is not modelled; the one non-finite value a division by   *)
(* zero produces is the pair NaN.  A quaternion is <<x, y, z, r>>, a       *)
(* vector <<a, b, c>> and a 3x3 matrix three rows of three scalars.        *)
(***************************************************************************)
EXTENDS Integers, Sequences, FiniteSets, TLC

VARIABLES pc, arg, ret

vars == <<pc, arg, ret>>

(***************************************************************************)
(* Bounds of the input domains.                                            *)
(***************************************************************************)
\* integer components -1..MaxPairComp of the two-quaternion inputs
MaxPairComp == 2
\* integer components -MaxComp..MaxComp of the one-quaternion inputs
MaxComp == 2
\* vector components range over -1..MaxVec
MaxVec == 1
\* hypotenuse bound of the rational half-angle points (sin, cos)
MaxHyp == 5
\* diagonal entries of arbitrary matrices are k/2, k in -MaxDiag..MaxDiag
MaxDiag == 2

(***************************************************************************)
(* Scalars: the arithmetic of T and double.                                *)
(***************************************************************************)
Abs(n) == IF n < 0 THEN -n ELSE n

RECURSIVE GCD(_, _)
GCD(a, b) == IF b = 0 THEN a ELSE GCD(b, a % b)

NaN == <<0, 0>>

IsFinite(a) == a[2] # 0

Rat(n, d) ==
  IF d = 0 THEN NaN
  ELSE LET g == GCD(Abs(n), Abs(d))
           s == IF d < 0 THEN -1 ELSE 1
       IN  <<(s * n) \div g, (s * d) \div g>>

Zero == <<0, 1>>
One == <<1, 1>>
Two == <<2, 1>>
Four == <<4, 1>>

RNeg(a) == <<-a[1], a[2]>>

RAdd(a, b) ==
  IF a[2] = 0 \/ b[2] = 0 THEN NaN
  ELSE LET g == GCD(a[2], b[2])
       IN  Rat(a[1] * (b[2] \div g) + b[1] * (a[2] \div g), (a[2] \div g) * b[2])

RSub(a, b) == RAdd(a, RNeg(b))

RMul(a, b) ==
  IF a[2] = 0 \/ b[2] = 0 THEN NaN
  ELSE LET g1 == GCD(Abs(a[1]), b[2])
           g2 == GCD(Abs(b[1]), a[2])
       IN  Rat((a[1] \div g1) * (b[1] \div g2), (a[2] \div g2) * (b[2] \div g1))

\* x / 0 is not finite in IEEE arithmetic and raises nothing
RDiv(a, b) ==
  IF a[2] = 0 \/ b[2] = 0 \/ b[1] = 0 THEN NaN
  ELSE RMul(a, Rat(b[2], b[1]))

\* comparisons with a non-finite operand are false, as in IEEE arithmetic
RLt(a, b) == IsFinite(a) /\ IsFinite(b) /\ a[1] * b[2] < b[1] * a[2]
RGt(a, b) == RLt(b, a)
RLe(a, b) == IsFinite(a) /\ IsFinite(b) /\ a[1] * b[2] <= b[1] * a[2]
REq(a, b) == IsFinite(a) /\ IsFinite(b) /\ a = b

RAbs(a) == <<Abs(a[1]), a[2]>>

\* largest k with k * k <= n, by bisection on lo..hi
RECURSIVE ISqrtIn(_, _, _)
ISqrtIn(n, lo, hi) ==
  IF lo >= hi THEN lo
  ELSE LET mid == (lo + hi + 1) \div 2
       IN  IF mid <= n \div mid THEN ISqrtIn(n, mid, hi) ELSE ISqrtIn(n, lo, mid - 1)

ISqrt(n) == ISqrtIn(n, 0, IF n < 46340 THEN n ELSE 46340)

IsSquare(n) == n >= 0 /\ ISqrt(n) * ISqrt(n) = n

\* vcl_sqrt: the exact root of a rational square; any other radicand is
\* rounded down to a multiple of 1/SqrtDen; a negative one is not a number
SqrtDen == 256

Sqrt(a) ==
  IF a[2] = 0 \/ a[1] < 0 THEN NaN
  ELSE IF IsSquare(a[1]) /\ IsSquare(a[2]) THEN Rat(ISqrt(a[1]), ISqrt(a[2]))
  ELSE Rat(ISqrt((a[1] * SqrtDen * SqrtDen) \div a[2]), SqrtDen)

(***************************************************************************)
(* vnl_vector_fixed<T,3>, vnl_cross_3d, dot_product                        *)
(***************************************************************************)
VAdd(u, v) == <<RAdd(u[1], v[1]), RAdd(u[2], v[2]), RAdd(u[3], v[3])>>
VSub(u, v) == <<RSub(u[1], v[1]), RSub(u[2], v[2]), RSub(u[3], v[3])>>
VScale(u, s) == <<RMul(u[1], s), RMul(u[2], s), RMul(u[3], s)>>
VDivide(u, s) == <<RDiv(u[1], s), RDiv(u[2], s), RDiv(u[3], s)>>

dot_product(u, v) ==
  RAdd(RAdd(RMul(u[1], v[1]), RMul(u[2], v[2])), RMul(u[3], v[3]))

vnl_cross_3d(u, v) ==
  << RSub(RMul(u[2], v[3]), RMul(u[3], v[2])),
     RSub(RMul(u[3], v[1]), RMul(u[1], v[3])),
     RSub(RMul(u[1], v[2]), RMul(u[2], v[1])) >>

magnitude(u) == Sqrt(dot_product(u, u))

(***************************************************************************)
(* vnl_quaternion<T>: accessors, algebra                                   *)
(***************************************************************************)
vnl_quaternion(x, y, z, r) == <<x, y, z, r>>

real(q) == q[4]
imaginary(q) == <<q[1], q[2], q[3]>>

\* vnl_c_vector<T>::dot_product(data_, data_, 4)
squared_norm(q) ==
  RAdd(RAdd(RMul(q[1], q[1]), RMul(q[2], q[2])),
       RAdd(RMul(q[3], q[3]), RMul(q[4], q[4])))

conjugate(q) == vnl_quaternion(RNeg(q[1]), RNeg(q[2]), RNeg(q[3]), q[4])

\* inverse() dividing the quaternion itself, the conjugation left out
inverse_unconjugated(q) ==
  LET n == squared_norm(q)
  IN  <<RDiv(q[1], n), RDiv(q[2], n), RDiv(q[3], n), RDiv(q[4], n)>>

inverse(q) ==
  LET inv == conjugate(q)
      n == squared_norm(q)
  IN  <<RDiv(inv[1], n), RDiv(inv[2], n), RDiv(inv[3], n), RDiv(inv[4], n)>>

\* operator* with the operands of the cross product exchanged
operator_mul_swapped(this, rhs) ==
  LET r1 == real(this)
      r2 == real(rhs)
      i1 == imaginary(this)
      i2 == imaginary(rhs)
      real_v == RSub(RMul(r1, r2), dot_product(i1, i2))
      img == VAdd(vnl_cross_3d(i2, i1), VAdd(VScale(i2, r1), VScale(i1, r2)))
  IN  vnl_quaternion(img[1], img[2], img[3], real_v)

\* (this * rhs)
operator_mul(this, rhs) ==
  LET r1 == real(this)
      r2 == real(rhs)
      i1 == imaginary(this)
      i2 == imaginary(rhs)
      real_v == RSub(RMul(r1, r2), dot_product(i1, i2))
      img == VAdd(vnl_cross_3d(i1, i2), VAdd(VScale(i2, r1), VScale(i1, r2)))
  IN  vnl_quaternion(img[1], img[2], img[3], real_v)

\* rotate() with the last term added instead of subtracted
rotate_added(q, v) ==
  LET r == real(q)
      i == imaginary(q)
      i_x_v == vnl_cross_3d(i, v)
  IN  VAdd(VAdd(v, VScale(i_x_v, RMul(Two, r))),
           VScale(vnl_cross_3d(i_x_v, i), Two))

rotate(q, v) ==
  LET r == real(q)
      i == imaginary(q)
      i_x_v == vnl_cross_3d(i, v)
  IN  VSub(VAdd(v, VScale(i_x_v, RMul(Two, r))),
           VScale(vnl_cross_3d(i_x_v, i), Two))

(***************************************************************************)
(* vnl_matrix_fixed<T,3,3>: rot(i, j) with i, j in 0..2                    *)
(***************************************************************************)
at(rot, i, j) == rot[i + 1][j + 1]

transpose(m) ==
  << <<m[1][1], m[2][1], m[3][1]>>,
     <<m[1][2], m[2][2], m[3][2]>>,
     <<m[1][3], m[2][3], m[3][3]>> >>

\* column j (1..3) of m as a vector
Column(m, j) == <<m[1][j], m[2][j], m[3][j]>>

\* matrix product a * b
matrix_mul(a, b) ==
  [i \in 1 .. 3 |-> [j \in 1 .. 3 |-> dot_product(a[i], Column(b, j))]]

\* m * v, v a column vector
matrix_vec(m, v) == <<dot_product(m[1], v), dot_product(m[2], v), dot_product(m[3], v)>>

(***************************************************************************)
(* Quaternion to rotation matrix                                           *)
(***************************************************************************)
\* rotation_matrix_transpose with the signs of the real-weighted terms
\* exchanged, i.e. the matrix itself instead of its transpose
rotation_matrix_untransposed(q) ==
  LET x == q[1]  y == q[2]  z == q[3]  r == q[4]
      x2 == RMul(x, x)  xy == RMul(x, y)  rx == RMul(r, x)
      y2 == RMul(y, y)  yz == RMul(y, z)  ry == RMul(r, y)
      z2 == RMul(z, z)  zx == RMul(z, x)  rz == RMul(r, z)
      r2 == RMul(r, r)
  IN  << << RSub(RSub(RAdd(r2, x2), y2), z2),
            RMul(Two, RSub(xy, rz)),
            RMul(Two, RAdd(zx, ry)) >>,
         << RMul(Two, RAdd(xy, rz)),
            RSub(RAdd(RSub(r2, x2), y2), z2),
            RMul(Two, RSub(yz, rx)) >>,
         << RMul(Two, RSub(zx, ry)),
            RMul(Two, RAdd(yz, rx)),
            RAdd(RSub(RSub(r2, x2), y2), z2) >> >>

rotation_matrix_transpose(q) ==
  LET x == q[1]  y == q[2]  z == q[3]  r == q[4]
      x2 == RMul(x, x)  xy == RMul(x, y)  rx == RMul(r, x)
      y2 == RMul(y, y)  yz == RMul(y, z)  ry == RMul(r, y)
      z2 == RMul(z, z)  zx == RMul(z, x)  rz == RMul(r, z)
      r2 == RMul(r, r)
  IN  << << RSub(RSub(RAdd(r2, x2), y2), z2),     \* rot(0,0)
            RMul(Two, RAdd(xy, rz)),              \* rot(0,1)
            RMul(Two, RSub(zx, ry)) >>,           \* rot(0,2)
         << RMul(Two, RSub(xy, rz)),              \* rot(1,0)
            RSub(RAdd(RSub(r2, x2), y2), z2),     \* rot(1,1)
            RMul(Two, RAdd(yz, rx)) >>,           \* rot(1,2)
         << RMul(Two, RAdd(zx, ry)),              \* rot(2,0)
            RMul(Two, RSub(yz, rx)),              \* rot(2,1)
            RAdd(RSub(RSub(r2, x2), y2), z2) >> >> \* rot(2,2)

\* the 3x3 matrix written into the top left of a 4x4 identity
rotation_matrix_transpose_4(q) ==
  LET m == rotation_matrix_transpose(q)
  IN  [i \in 1 .. 4 |-> [j \in 1 .. 4 |->
        IF i <= 3 /\ j <= 3 THEN m[i][j] ELSE IF i = j THEN One ELSE Zero]]

(***************************************************************************)
(* Rotation matrix to quaternion                                           *)
(***************************************************************************)
\* xx, yy, zz, rr from the diagonal of rot
diagonal_terms(rot) ==
  LET d0 == at(rot, 0, 0)  d1 == at(rot, 1, 1)  d2 == at(rot, 2, 2)
  IN  [ xx |-> RSub(RSub(RAdd(One, d0), d1), d2),
        yy |-> RSub(RAdd(RSub(One, d0), d1), d2),
        zz |-> RAdd(RSub(RSub(One, d0), d1), d2),
        rr |-> RAdd(RAdd(RAdd(One, d0), d1), d2) ]

\* if (term > max) max = term;
update_max(max, term) == IF RGt(term, max) THEN term ELSE max

\* the search for the maximum started from xx, rr never considered
diagonal_max_without_rr(rot) ==
  LET t == diagonal_terms(rot)
  IN  update_max(update_max(t.xx, t.yy), t.zz)

diagonal_max(rot) ==
  LET t == diagonal_terms(rot)
  IN  update_max(update_max(update_max(t.rr, t.xx), t.yy), t.zz)

\* the chain rr == max, else xx == max, else yy == max, else
select_branch(t, max) ==
  IF REq(t.rr, max) THEN "rr"
  ELSE IF REq(t.xx, max) THEN "xx"
  ELSE IF REq(t.yy, max) THEN "yy"
  ELSE "zz"

\* which of the four branches of the constructor is taken
branch(rot) == select_branch(diagonal_terms(rot), diagonal_max(rot))

\* r4, x4, y4 or z4: the square root of four times the selected term
divisor(rot) == Sqrt(RMul(diagonal_terms(rot)[branch(rot)], Four))

\* the rr branch with the differences of the off diagonal terms reversed
components_rr_reversed(rot, b, d) ==
  IF b = "rr" THEN
    vnl_quaternion(RDiv(RSub(at(rot, 2, 1), at(rot, 1, 2)), d),
                   RDiv(RSub(at(rot, 0, 2), at(rot, 2, 0)), d),
                   RDiv(RSub(at(rot, 1, 0), at(rot, 0, 1)), d),
                   RDiv(d, Four))
  ELSE IF b = "xx" THEN
    vnl_quaternion(RDiv(d, Four),
                   RDiv(RAdd(at(rot, 0, 1), at(rot, 1, 0)), d),
                   RDiv(RAdd(at(rot, 0, 2), at(rot, 2, 0)), d),
                   RDiv(RSub(at(rot, 1, 2), at(rot, 2, 1)), d))
  ELSE IF b = "yy" THEN
    vnl_quaternion(RDiv(RAdd(at(rot, 0, 1), at(rot, 1, 0)), d),
                   RDiv(d, Four),
                   RDiv(RAdd(at(rot, 1, 2), at(rot, 2, 1)), d),
                   RDiv(RSub(at(rot, 2, 0), at(rot, 0, 2)), d))
  ELSE
    vnl_quaternion(RDiv(RAdd(at(rot, 0, 2), at(rot, 2, 0)), d),
                   RDiv(RAdd(at(rot, 1, 2), at(rot, 2, 1)), d),
                   RDiv(d, Four),
                   RDiv(RSub(at(rot, 0, 1), at(rot, 1, 0)), d))

\* the yy branch with the difference for the real part reversed
components_yy_reversed(rot, b, d) ==
  IF b = "rr" THEN
    vnl_quaternion(RDiv(RSub(at(rot, 1, 2), at(rot, 2, 1)), d),
                   RDiv(RSub(at(rot, 2, 0), at(rot, 0, 2)), d),
                   RDiv(RSub(at(rot, 0, 1), at(rot, 1, 0)), d),
                   RDiv(d, Four))
  ELSE IF b = "xx" THEN
    vnl_quaternion(RDiv(d, Four),
                   RDiv(RAdd(at(rot, 0, 1), at(rot, 1, 0)), d),
                   RDiv(RAdd(at(rot, 0, 2), at(rot, 2, 0)), d),
                   RDiv(RSub(at(rot, 1, 2), at(rot, 2, 1)), d))
  ELSE IF b = "yy" THEN
    vnl_quaternion(RDiv(RAdd(at(rot, 0, 1), at(rot, 1, 0)), d),
                   RDiv(d, Four),
                   RDiv(RAdd(at(rot, 1, 2), at(rot, 2, 1)), d),
                   RDiv(RSub(at(rot, 0, 2), at(rot, 2, 0)), d))
  ELSE
    vnl_quaternion(RDiv(RAdd(at(rot, 0, 2), at(rot, 2, 0)), d),
                   RDiv(RAdd(at(rot, 1, 2), at(rot, 2, 1)), d),
                   RDiv(d, Four),
                   RDiv(RSub(at(rot, 0, 1), at(rot, 1, 0)), d))

\* the components written by branch b with the divisor d
components(rot, b, d) ==
  IF b = "rr" THEN
    vnl_quaternion(RDiv(RSub(at(rot, 1, 2), at(rot, 2, 1)), d),
                   RDiv(RSub(at(rot, 2, 0), at(rot, 0, 2)), d),
                   RDiv(RSub(at(rot, 0, 1), at(rot, 1, 0)), d),
                   RDiv(d, Four))
  ELSE IF b = "xx" THEN
    vnl_quaternion(RDiv(d, Four),
                   RDiv(RAdd(at(rot, 0, 1), at(rot, 1, 0)), d),
                   RDiv(RAdd(at(rot, 0, 2), at(rot, 2, 0)), d),
                   RDiv(RSub(at(rot, 1, 2), at(rot, 2, 1)), d))
  ELSE IF b = "yy" THEN
    vnl_quaternion(RDiv(RAdd(at(rot, 0, 1), at(rot, 1, 0)), d),
                   RDiv(d, Four),
                   RDiv(RAdd(at(rot, 1, 2), at(rot, 2, 1)), d),
                   RDiv(RSub(at(rot, 2, 0), at(rot, 0, 2)), d))
  ELSE
    vnl_quaternion(RDiv(RAdd(at(rot, 0, 2), at(rot, 2, 0)), d),
                   RDiv(RAdd(at(rot, 1, 2), at(rot, 2, 1)), d),
                   RDiv(d, Four),
                   RDiv(RSub(at(rot, 0, 1), at(rot, 1, 0)), d))

\* vnl_quaternion(vnl_matrix_fixed<T,3,3> const& rot)
vnl_quaternion_rot(rot) == components(rot, branch(rot), divisor(rot))

(***************************************************************************)
(* Angles.  An angle handed to a constructor is given by the point         *)
(* <<sin, cos>> of its half on the unit circle, so it is 2 * atan2(sin,    *)
(* cos) and lies in (-2 pi, 2 pi].  An angle that is returned is the       *)
(* record [turn, dir]: dir is the direction <<sin, cos>> of the angle,     *)
(* scaled to |sin| + |cos| = 1, and turn is 0 for an angle in (-pi, pi],   *)
(* 1 for one in (pi, 2 pi] and -1 for one in (-2 pi, -pi].                 *)
(***************************************************************************)
\* vcl_sin(angle * 0.5), vcl_cos(angle * 0.5)
sin_half(angle) == angle[1]
cos_half(angle) == angle[2]

Direction(y, x) ==
  IF y = Zero /\ x = Zero THEN <<Zero, One>>
  ELSE LET n == RAdd(RAbs(y), RAbs(x)) IN <<RDiv(y, n), RDiv(x, n)>>

\* vcl_atan2(y, x): the angle in (-pi, pi] of the direction (x, y)
atan2(y, x) == [turn |-> 0, dir |-> Direction(y, x)]

\* 2 * a for a returned by atan2
twice(a) ==
  LET y == a.dir[1]
      x == a.dir[2]
  IN  [ turn |-> IF RGt(x, Zero) \/ (x = Zero /\ RGt(y, Zero)) THEN 0
                 ELSE IF RLe(Zero, y) THEN 1 ELSE -1,
        dir |-> Direction(RMul(Two, RMul(y, x)), RSub(RMul(x, x), RMul(y, y))) ]

\* the value of an angle handed to a constructor
angle_value(angle) == twice(atan2(sin_half(angle), cos_half(angle)))

(***************************************************************************)
(* Axis and angle                                                          *)
(***************************************************************************)
\* vnl_quaternion(vnl_vector_fixed<T,3> const& axis, double angle)
vnl_quaternion_axis_angle(axis_in, angle_in) ==
  LET s == sin_half(angle_in)
  IN  vnl_quaternion(RMul(s, axis_in[1]), RMul(s, axis_in[2]), RMul(s, axis_in[3]),
                     cos_half(angle_in))

\* angle() without the factor 2
angle_not_doubled(q) == atan2(magnitude(imaginary(q)), real(q))

angle(q) == twice(atan2(magnitude(imaginary(q)), real(q)))

\* axis() with the fallback written to the first component
axis_fallback_x(q) ==
  LET direc == imaginary(q)
      mag == magnitude(direc)
  IN  IF mag = Zero
      THEN [value |-> <<One, direc[2], direc[3]>>, cout |-> TRUE]
      ELSE [value |-> VDivide(direc, mag), cout |-> FALSE]

\* value: the vector returned; cout: whether the diagnostic line is printed
axis(q) ==
  LET direc == imaginary(q)
      mag == magnitude(direc)
  IN  IF mag = Zero
      THEN [value |-> <<direc[1], direc[2], One>>, cout |-> TRUE]
      ELSE [value |-> VDivide(direc, mag), cout |-> FALSE]

(***************************************************************************)
(* Euler angles                                                            *)
(***************************************************************************)
\* vnl_quaternion(T theta_X, T theta_Y, T theta_Z)
vnl_quaternion_euler(theta_X, theta_Y, theta_Z) ==
  LET Rx == vnl_quaternion(sin_half(theta_X), Zero, Zero, cos_half(theta_X))
      Ry == vnl_quaternion(Zero, sin_half(theta_Y), Zero, cos_half(theta_Y))
      Rz == vnl_quaternion(Zero, Zero, sin_half(theta_Z), cos_half(theta_Z))
  IN  operator_mul(operator_mul(Rz, Ry), Rx)

\* vcl_numeric_limits<float>::epsilon() is 1 / epsilon_den
epsilon_den == 8388608

\* rotation_euler_angles() reading rotM(1,0) for rotM(0,1) in the last angle
rotation_euler_angles_m10(q) ==
  LET rotM == rotation_matrix_transpose_4(q)
      xy == Sqrt(RAdd(RMul(at(rotM, 0, 0), at(rotM, 0, 0)),
                      RMul(at(rotM, 0, 1), at(rotM, 0, 1))))
  IN  IF RGt(xy, Rat(8, epsilon_den))
      THEN << atan2(at(rotM, 1, 2), at(rotM, 2, 2)),
              atan2(RNeg(at(rotM, 0, 2)), xy),
              atan2(at(rotM, 1, 0), at(rotM, 0, 0)) >>
      ELSE << atan2(RNeg(at(rotM, 2, 1)), at(rotM, 1, 1)),
              atan2(RNeg(at(rotM, 0, 2)), xy),
              atan2(Zero, One) >>

rotation_euler_angles(q) ==
  LET rotM == rotation_matrix_transpose_4(q)
      xy == Sqrt(RAdd(RMul(at(rotM, 0, 0), at(rotM, 0, 0)),
                      RMul(at(rotM, 0, 1), at(rotM, 0, 1))))
  IN  IF RGt(xy, Rat(8, epsilon_den))
      THEN << atan2(at(rotM, 1, 2), at(rotM, 2, 2)),
              atan2(RNeg(at(rotM, 0, 2)), xy),
              atan2(at(rotM, 0, 1), at(rotM, 0, 0)) >>
      ELSE << atan2(RNeg(at(rotM, 2, 1)), at(rotM, 1, 1)),
              atan2(RNeg(at(rotM, 0, 2)), xy),
              atan2(Zero, One) >>

(***************************************************************************)
(* Input domains                                                           *)
(***************************************************************************)
IntQuat(t) == <<Rat(t[1], 1), Rat(t[2], 1), Rat(t[3], 1), Rat(t[4], 1)>>

NormSq4(t) == t[1] * t[1] + t[2] * t[2] + t[3] * t[3] + t[4] * t[4]

\* the integer 4-tuple t scaled to unit length (its length is an integer)
Normalized(t) ==
  LET n == ISqrt(NormSq4(t))
  IN  <<Rat(t[1], n), Rat(t[2], n), Rat(t[3], n), Rat(t[4], n)>>

UnitQuatsOver(R) ==
  { Normalized(t) :
      t \in { u \in R \X R \X R \X R : NormSq4(u) > 0 /\ IsSquare(NormSq4(u)) } }

\* unit quaternions for the inputs that take two of them
PairQuats == UnitQuatsOver(-1 .. MaxPairComp)

UnitQuats == UnitQuatsOver(-MaxComp .. MaxComp)

\* quaternions of any norm, the null quaternion included
IntQuats ==
  { IntQuat(t) : t \in (-MaxComp .. MaxComp) \X (-MaxComp .. MaxComp)
                       \X (-MaxComp .. MaxComp) \X (-MaxComp .. MaxComp) }

Quats == UnitQuats \cup IntQuats

Vectors ==
  { <<Rat(t[1], 1), Rat(t[2], 1), Rat(t[3], 1)>> :
      t \in (-1 .. MaxVec) \X (-1 .. MaxVec) \X (-1 .. MaxVec) }

\* unit vectors with rational components
UnitAxes == { imaginary(q) : q \in { u \in UnitQuats : real(u) = Zero } }

\* the rational points <<sin, cos>> of the unit circle with denominator <= MaxHyp
HalfPoints ==
  { <<Rat(t[1], t[3]), Rat(t[2], t[3])>> :
      t \in { u \in (-MaxHyp .. MaxHyp) \X (-MaxHyp .. MaxHyp) \X (1 .. MaxHyp) :
                u[1] * u[1] + u[2] * u[2] = u[3] * u[3] } }

Halves == { Rat(k, 2) : k \in -MaxDiag .. MaxDiag }

\* matrices that need not be orthonormal, and the rotation matrices
Matrices ==
  { << <<d[1], o[1], o[2]>>, <<o[3], d[2], o[4]>>, <<o[5], o[6], d[3]>> >> :
      d \in Halves \X Halves \X Halves,
      o \in [1 .. 6 -> {Rat(-1, 1), Rat(1, 1)}] }
  \cup { rotation_matrix_transpose(q) : q \in UnitQuats }

IsUnit(q) == squared_norm(q) = One

QNeg(q) == <<RNeg(q[1]), RNeg(q[2]), RNeg(q[3]), RNeg(q[4])>>

Identity == vnl_quaternion(Zero, Zero, Zero, One)

AllFinite(s) == \A i \in DOMAIN s : IsFinite(s[i])

(***************************************************************************)
(* Two rotations applied to a vector, one after the other and composed     *)
(***************************************************************************)
InitCompose ==
  /\ pc = "compose"
  /\ \E q1 \in PairQuats, q2 \in PairQuats, v \in Vectors :
       arg = [q1 |-> q1, q2 |-> q2, v |-> v]
  /\ ret = [n |-> 0]

\* prod = q2 * q1
Multiply ==
  /\ pc = "compose"
  /\ pc' = "multiplied"
  /\ ret' = [prod |-> operator_mul(arg.q2, arg.q1)]
  /\ UNCHANGED arg

\* v1 = q1.rotate(v)
RotateFirst ==
  /\ pc = "multiplied"
  /\ pc' = "rotated1"
  /\ ret' = [prod |-> ret.prod, v1 |-> rotate(arg.q1, arg.v)]
  /\ UNCHANGED arg

\* v21 = q2.rotate(v1)
RotateSecond ==
  /\ pc = "rotated1"
  /\ pc' = "rotated2"
  /\ ret' = [prod |-> ret.prod, v1 |-> ret.v1, v21 |-> rotate(arg.q2, ret.v1)]
  /\ UNCHANGED arg

\* vp = (q2 * q1).rotate(v)
RotateProduct ==
  /\ pc = "rotated2"
  /\ pc' = "composed"
  /\ ret' = [prod |-> ret.prod, v1 |-> ret.v1, v21 |-> ret.v21,
             vp |-> rotate(ret.prod, arg.v)]
  /\ UNCHANGED arg

NextCompose == Multiply \/ RotateFirst \/ RotateSecond \/ RotateProduct

SpecCompose == InitCompose /\ [][NextCompose]_vars

(***************************************************************************)
(* The matrices of two quaternions and of their product                    *)
(***************************************************************************)
InitPair ==
  /\ pc = "pair"
  /\ \E q1 \in PairQuats, q2 \in PairQuats : arg = [q1 |-> q1, q2 |-> q2]
  /\ ret = [n |-> 0]

\* prod = q2 * q1
MultiplyPair ==
  /\ pc = "pair"
  /\ pc' = "pair_multiplied"
  /\ ret' = [prod |-> operator_mul(arg.q2, arg.q1)]
  /\ UNCHANGED arg

\* m1 = q1.rotation_matrix_transpose()
MatrixOfFirst ==
  /\ pc = "pair_multiplied"
  /\ pc' = "pair_m1"
  /\ ret' = [prod |-> ret.prod, m1 |-> rotation_matrix_transpose(arg.q1)]
  /\ UNCHANGED arg

\* m2 = q2.rotation_matrix_transpose()
MatrixOfSecond ==
  /\ pc = "pair_m1"
  /\ pc' = "pair_m2"
  /\ ret' = [prod |-> ret.prod, m1 |-> ret.m1,
             m2 |-> rotation_matrix_transpose(arg.q2)]
  /\ UNCHANGED arg

\* mp = (q2 * q1).rotation_matrix_transpose()
MatrixOfProduct ==
  /\ pc = "pair_m2"
  /\ pc' = "pair_done"
  /\ ret' = [prod |-> ret.prod, m1 |-> ret.m1, m2 |-> ret.m2,
             mp |-> rotation_matrix_transpose(ret.prod)]
  /\ UNCHANGED arg

NextPair == MultiplyPair \/ MatrixOfFirst \/ MatrixOfSecond \/ MatrixOfProduct

SpecPair == InitPair /\ [][NextPair]_vars

(***************************************************************************)
(* A vector rotated by a quaternion, and the matrix of the quaternion      *)
(***************************************************************************)
InitRotate ==
  /\ pc = "rotate"
  /\ \E q \in Quats, v \in Vectors : arg = [q |-> q, v |-> v]
  /\ ret = [n |-> 0]

\* rv = q.rotate(v)
RotateVector ==
  /\ pc = "rotate"
  /\ pc' = "rotate_rv"
  /\ ret' = [rv |-> rotate(arg.q, arg.v)]
  /\ UNCHANGED arg

\* m = q.rotation_matrix_transpose()
MatrixOfQuat ==
  /\ pc = "rotate_rv"
  /\ pc' = "rotate_done"
  /\ ret' = [rv |-> ret.rv, m |-> rotation_matrix_transpose(arg.q)]
  /\ UNCHANGED arg

NextRotate == RotateVector \/ MatrixOfQuat

SpecRotate == InitRotate /\ [][NextRotate]_vars

(***************************************************************************)
(* Quaternion to matrix and back                                           *)
(***************************************************************************)
InitRoundTrip ==
  /\ pc = "quat"
  /\ \E q \in Quats : arg = [q |-> q]
  /\ ret = [n |-> 0]

\* m = q.rotation_matrix_transpose()
ToMatrix ==
  /\ pc = "quat"
  /\ pc' = "matrix"
  /\ ret' = [m |-> rotation_matrix_transpose(arg.q)]
  /\ UNCHANGED arg

\* back = vnl_quaternion(m)
FromMatrix ==
  /\ pc = "matrix"
  /\ pc' = "direct"
  /\ ret' = [m |-> ret.m, back |-> vnl_quaternion_rot(ret.m)]
  /\ UNCHANGED arg

\* back = vnl_quaternion(m.transpose())
FromTransposedMatrix ==
  /\ pc = "matrix"
  /\ pc' = "transposed"
  /\ ret' = [m |-> ret.m, back |-> vnl_quaternion_rot(transpose(ret.m))]
  /\ UNCHANGED arg

NextRoundTrip == ToMatrix \/ FromMatrix \/ FromTransposedMatrix

SpecRoundTrip == InitRoundTrip /\ [][NextRoundTrip]_vars

(***************************************************************************)
(* The matrix constructor on any matrix                                    *)
(***************************************************************************)
InitAnyMatrix ==
  /\ pc = "any_matrix"
  /\ \E rot \in Matrices : arg = [rot |-> rot]
  /\ ret = [n |-> 0]

\* q = vnl_quaternion(rot), with the branch taken and the divisor used
ConstructFromMatrix ==
  /\ pc = "any_matrix"
  /\ pc' = "constructed"
  /\ ret' = [q |-> vnl_quaternion_rot(arg.rot), branch |-> branch(arg.rot),
             divisor |-> divisor(arg.rot)]
  /\ UNCHANGED arg

NextAnyMatrix == ConstructFromMatrix

SpecAnyMatrix == InitAnyMatrix /\ [][NextAnyMatrix]_vars

(***************************************************************************)
(* Axis and angle to quaternion and back                                   *)
(***************************************************************************)
InitAxisAngle ==
  /\ pc = "axis_angle"
  /\ \E a \in UnitAxes, t \in HalfPoints : arg = [axis |-> a, angle |-> t]
  /\ ret = [n |-> 0]

\* q = vnl_quaternion(axis, angle)
ConstructAxisAngle ==
  /\ pc = "axis_angle"
  /\ pc' = "aa_built"
  /\ ret' = [q |-> vnl_quaternion_axis_angle(arg.axis, arg.angle)]
  /\ UNCHANGED arg

\* angle = q.angle()
QueryAngle ==
  /\ pc = "aa_built"
  /\ pc' = "aa_angle"
  /\ ret' = [q |-> ret.q, angle |-> angle(ret.q)]
  /\ UNCHANGED arg

\* axis = q.axis()
QueryAxis ==
  /\ pc = "aa_angle"
  /\ pc' = "aa_done"
  /\ ret' = [q |-> ret.q, angle |-> ret.angle, axis |-> axis(ret.q)]
  /\ UNCHANGED arg

NextAxisAngle == ConstructAxisAngle \/ QueryAngle \/ QueryAxis

SpecAxisAngle == InitAxisAngle /\ [][NextAxisAngle]_vars

(***************************************************************************)
(* axis() of any quaternion                                                *)
(***************************************************************************)
InitAxis ==
  /\ pc = "axis_in"
  /\ \E q \in Quats : arg = [q |-> q]
  /\ ret = [n |-> 0]

\* axis = q.axis()
AxisOf ==
  /\ pc = "axis_in"
  /\ pc' = "axis_out"
  /\ ret' = [axis |-> axis(arg.q)]
  /\ UNCHANGED arg

\* angle = q.angle()
AngleOf ==
  /\ pc = "axis_out"
  /\ pc' = "axis_angle_out"
  /\ ret' = [axis |-> ret.axis, angle |-> angle(arg.q)]
  /\ UNCHANGED arg

NextAxis == AxisOf \/ AngleOf

SpecAxis == InitAxis /\ [][NextAxis]_vars

(***************************************************************************)
(* A quaternion times its inverse                                          *)
(***************************************************************************)
InitInverse ==
  /\ pc = "inverse"
  /\ \E q \in Quats : arg = [q |-> q]
  /\ ret = [n |-> 0]

\* inv = q.inverse()
Invert ==
  /\ pc = "inverse"
  /\ pc' = "inverted"
  /\ ret' = [inv |-> inverse(arg.q)]
  /\ UNCHANGED arg

\* prod = q * inv
MultiplyByInverse ==
  /\ pc = "inverted"
  /\ pc' = "inverse_done"
  /\ ret' = [inv |-> ret.inv, prod |-> operator_mul(arg.q, ret.inv)]
  /\ UNCHANGED arg

NextInverse == Invert \/ MultiplyByInverse

SpecInverse == InitInverse /\ [][NextInverse]_vars

(***************************************************************************)
(* Euler angles to quaternion and back                                     *)
(***************************************************************************)
InitEuler ==
  /\ pc = "euler"
  /\ \E tx \in HalfPoints, ty \in HalfPoints, tz \in HalfPoints :
       arg = [theta_X |-> tx, theta_Y |-> ty, theta_Z |-> tz]
  /\ ret = [n |-> 0]

\* q = vnl_quaternion(theta_X, theta_Y, theta_Z)
ConstructEuler ==
  /\ pc = "euler"
  /\ pc' = "euler_built"
  /\ ret' = [q |-> vnl_quaternion_euler(arg.theta_X, arg.theta_Y, arg.theta_Z)]
  /\ UNCHANGED arg

\* angles = q.rotation_euler_angles()
QueryEuler ==
  /\ pc = "euler_built"
  /\ pc' = "euler_done"
  /\ ret' = [q |-> ret.q, angles |-> rotation_euler_angles(ret.q)]
  /\ UNCHANGED arg

NextEuler == ConstructEuler \/ QueryEuler

SpecEuler == InitEuler /\ [][NextEuler]_vars

(***************************************************************************)
(* Properties                                                              *)
(***************************************************************************)
\* C1: for unit quaternions q1, q2 and every vector v, rotating v by q1 and
\* then by q2 gives the same vector as rotating v once by the product
\* q2 * q1: q2.rotate(q1.rotate(v)) = (q2 * q1).rotate(v).
CompositionOrder ==
  (pc = "composed" /\ IsUnit(arg.q1) /\ IsUnit(arg.q2)) => ret.v21 = ret.vp

\* both rotations done, by quaternions that do not commute, on a vector
\* that the first one moves
CompositionOrderWitness ==
  /\ pc = "composed"
  /\ IsUnit(arg.q1) /\ IsUnit(arg.q2)
  /\ operator_mul(arg.q1, arg.q2) # operator_mul(arg.q2, arg.q1)
  /\ ret.v1 # arg.v
  /\ ret.v21 # ret.v1

\* C2 as stated: for every unit quaternion q, the quaternion constructed from
\* the transpose of q.rotation_matrix_transpose() is q or -q.
TransposedRoundTripOriginal ==
  (pc = "transposed" /\ IsUnit(arg.q)) => ret.back \in {arg.q, QNeg(arg.q)}

\* C2 amended: for every unit quaternion q, the quaternion constructed from
\* the transpose of q.rotation_matrix_transpose() is the conjugate of q or
\* the negated conjugate of q.
TransposedRoundTrip ==
  (pc = "transposed" /\ IsUnit(arg.q)) =>
    ret.back \in {conjugate(arg.q), QNeg(conjugate(arg.q))}

\* a unit quaternion with real and imaginary parts both non-zero went through
\* the transposed matrix
TransposedRoundTripWitness ==
  /\ pc = "transposed"
  /\ IsUnit(arg.q)
  /\ real(arg.q) # Zero
  /\ imaginary(arg.q) # <<Zero, Zero, Zero>>
  /\ ret.back = conjugate(arg.q)

\* C3: for every unit quaternion q and every vector v, q.rotate(v) equals
\* transpose(q.rotation_matrix_transpose()) * v, v a column vector.
RotateMatchesMatrix ==
  (pc = "rotate_done" /\ IsUnit(arg.q)) =>
    ret.rv = matrix_vec(transpose(ret.m), arg.v)

\* a unit quaternion moved the vector, and its matrix is not symmetric
RotateMatchesMatrixWitness ==
  /\ pc = "rotate_done"
  /\ IsUnit(arg.q)
  /\ ret.rv # arg.v
  /\ transpose(ret.m) # ret.m

InZeroPi(t) == RLe(Zero, sin_half(t)) /\ RLe(Zero, cos_half(t))

\* C4 as stated: for every unit axis and every angle in [0, pi], both
\* endpoints included, angle() returns the angle and axis() the axis the
\* quaternion was built from.
AxisAngleRoundTripOriginal ==
  (pc = "aa_done" /\ InZeroPi(arg.angle)) =>
    /\ ret.angle = angle_value(arg.angle)
    /\ ret.axis.value = arg.axis

\* C4 amended: for every unit axis and every angle in [0, pi], angle()
\* returns the angle the quaternion was built from; axis() returns the axis
\* it was built from when the angle is in (0, pi], and (0,0,1) when the
\* angle is 0.
AxisAngleRoundTrip ==
  (pc = "aa_done" /\ InZeroPi(arg.angle)) =>
    /\ ret.angle = angle_value(arg.angle)
    /\ sin_half(arg.angle) # Zero => ret.axis.value = arg.axis
    /\ sin_half(arg.angle) = Zero => ret.axis.value = <<Zero, Zero, One>>

\* an angle strictly between 0 and pi about an axis off the coordinate axes
\* was read back
AxisAngleRoundTripWitness ==
  /\ pc = "aa_done"
  /\ RLt(Zero, sin_half(arg.angle)) /\ RLt(Zero, cos_half(arg.angle))
  /\ \A i \in 1 .. 3 : arg.axis[i] # One /\ arg.axis[i] # RNeg(One)
  /\ ret.axis.value = arg.axis
  /\ ret.angle = angle_value(arg.angle)

\* cos of the angle whose half has sine and cosine t
cos_full(t) == RSub(RMul(cos_half(t), cos_half(t)), RMul(sin_half(t), sin_half(t)))

EulerInput == <<angle_value(arg.theta_X), angle_value(arg.theta_Y), angle_value(arg.theta_Z)>>

InOpenPi(t) == RLt(Zero, cos_half(t))

\* theta in (-pi/2, pi/2): the cosine of its half exceeds the size of the sine
InOpenHalfPi(t) == RLt(RAbs(sin_half(t)), cos_half(t))

InverseCorrect ==
  (pc = "inverse_done" /\ IsUnit(arg.q)) =>
    /\ ret.prod = Identity
    /\ \A i \in 1 .. 4 : ret.inv[i] = RDiv(conjugate(arg.q)[i], squared_norm(arg.q))

\* a unit quaternion with no zero component was inverted and multiplied
InverseCorrectWitness ==
  /\ pc = "inverse_done"
  /\ IsUnit(arg.q)
  /\ \A i \in 1 .. 4 : arg.q[i] # Zero
  /\ ret.inv # arg.q
  /\ ret.prod = Identity

\* C7: for every quaternion whose imaginary part is (0,0,0), axis() returns
\* the vector (0,0,1) as a normal result; for every other quaternion it
\* returns the imaginary part divided by its magnitude.
AxisFallback ==
  pc = "axis_out" =>
    /\ AllFinite(ret.axis.value)
    /\ imaginary(arg.q) = <<Zero, Zero, Zero>> => ret.axis.value = <<Zero, Zero, One>>
    /\ imaginary(arg.q) # <<Zero, Zero, Zero>> =>
         ret.axis.value = VDivide(imaginary(arg.q), magnitude(imaginary(arg.q)))

\* axis() was asked of a quaternion with a null imaginary part that is not
\* the identity
AxisFallbackWitness ==
  /\ pc = "axis_out"
  /\ imaginary(arg.q) = <<Zero, Zero, Zero>>
  /\ arg.q # Identity
  /\ ret.axis.cout
  /\ ret.axis.value = <<Zero, Zero, One>>

\* C8: for unit quaternions q1, q2 with m1 and m2 their
\* rotation_matrix_transpose(), (q2 * q1).rotation_matrix_transpose() is the
\* matrix product m1 * m2.
MatrixCompositionReversed ==
  (pc = "pair_done" /\ IsUnit(arg.q1) /\ IsUnit(arg.q2)) =>
    \A i \in 1 .. 3, j \in 1 .. 3 : ret.mp[i][j] = matrix_mul(ret.m1, ret.m2)[i][j]

\* the matrices of two quaternions that do not commute were compared
MatrixCompositionReversedWitness ==
  /\ pc = "pair_done"
  /\ IsUnit(arg.q1) /\ IsUnit(arg.q2)
  /\ \E i \in 1 .. 3, j \in 1 .. 3 :
       matrix_mul(ret.m1, ret.m2)[i][j] # matrix_mul(ret.m2, ret.m1)[i][j]

\* C9: for every unit quaternion q, the quaternion constructed from
\* q.rotation_matrix_transpose(), not transposed again, is q or -q,
\* whichever of the four branches of the constructor is taken.
DirectRoundTrip ==
  (pc = "direct" /\ IsUnit(arg.q)) => ret.back \in {arg.q, QNeg(arg.q)}

\* the round trip went through the yy branch and changed the sign of q
DirectRoundTripWitness ==
  /\ pc = "direct"
  /\ IsUnit(arg.q)
  /\ branch(ret.m) = "yy"
  /\ real(arg.q) # Zero
  /\ ret.back = QNeg(arg.q)

\* C10: the branch taken by the matrix constructor is the one whose term is
\* the maximum of rr, xx, yy, zz, ties going to rr, then xx, then yy, then
\* zz; the four terms add up to 4, the selected one is at least 1, and the
\* divisor is not zero, for every matrix, orthonormal or not.
BranchSelection ==
  pc = "constructed" =>
    LET t == diagonal_terms(arg.rot)
        b == ret.branch
    IN  /\ \A o \in {"rr", "xx", "yy", "zz"} : RLe(t[o], t[b])
        /\ b = "xx" => RLt(t.rr, t.xx)
        /\ b = "yy" => RLt(t.rr, t.yy) /\ RLt(t.xx, t.yy)
        /\ b = "zz" => RLt(t.rr, t.zz) /\ RLt(t.xx, t.zz) /\ RLt(t.yy, t.zz)
        /\ RAdd(RAdd(t.rr, t.xx), RAdd(t.yy, t.zz)) = Four
        /\ RLe(One, t[b])
        /\ IsFinite(ret.divisor) /\ ret.divisor # Zero
        /\ AllFinite(ret.q)

\* the constructor took the zz branch on a matrix that is not orthonormal
BranchSelectionWitness ==
  /\ pc = "constructed"
  /\ ret.branch = "zz"
  /\ matrix_mul(arg.rot, transpose(arg.rot))[1][1] # One
  /\ AllFinite(ret.q)

====
